---- MODULE Spec2Model ----
(***************************************************************************)
(* MCPClientManager (src/02_mcp_adk_client/mcp_client/manager.py): a       *)
(* manager that loads server descriptors, connects to every server over    *)
(* STDIO, dispatches tool calls by name and releases every acquired        *)
(* context manager through one AsyncExitStack.                             *)
(*                                                                         *)
(* Dictionaries keep insertion order, so _server_params is a sequence of   *)
(* names and sessions a sequence of [name, sid] pairs.  Every context      *)
(* manager entered on the exit stack is a record of `resources`; its index *)
(* is its identity.  Everything behind an await that belongs to the mcp    *)
(* library or to a server process (spawn, handshake, list_tools,           *)
(* call_tool, __aexit__) is an outcome chosen with \E.                     *)
(***************************************************************************)
EXTENDS Integers, Sequences, FiniteSets, TLC

VARIABLES
    server_params,  \* self._server_params: names in insertion order
    sessions,       \* self.sessions: <<[name, sid]>> in insertion order
    exit_stack,     \* self.exit_stack: resource ids, last pushed last
    resources,      \* every context manager ever entered: [kind, name, state]
    pc,             \* "idle" | "connect" | "call" | "list": where the single caller is
    idx,            \* position of the running for-loop
    opCount,        \* manager operations started so far
    connectCount,   \* connect_to_all calls started so far
    log,            \* warnings and errors logged by the running / last operation
    closeLog,       \* resource ids in the order their __aexit__ was called
    lastOp,         \* the operation that finished last
    lastOutcome,    \* how it finished: "returned", a result or an exception
    callTool,       \* tool_name of the running / last call_tool
    queried,        \* [sid, answer] per list_tools request of that call_tool
    invoked,        \* [sid, ok] per session.call_tool request of it
    callFrom,       \* sid whose result call_tool returned, 0 if none
    all_tools,      \* all_tools of the running / last list_all_tools: tool names
    listed,         \* [sid, error, tools] per list_tools request of it
    attempts,       \* [name, outcome, tid, sid] per descriptor of that connect_to_all
    regBefore,      \* names registered when that connect_to_all started
    prevOp,         \* the operation that finished before lastOp
    closeMark,      \* Len(closeLog) when the last shutdown started
    closeRaised,    \* resource whose __aexit__ raised in the last operation, 0 if none
    mainPc,         \* where main() is: "none" when the manager is driven freely
    exitPath,       \* the way main() left its try block, "none" before
    callers,        \* concurrent callers (asyncio tasks) of list_all_tools / call_tool
    accum,          \* the all_tools list of each concurrent list_all_tools frame
    serverAnswer    \* per server name: what the server answers to list_tools

vars == <<server_params, sessions, exit_stack, resources, pc, idx,
          opCount, connectCount, log, closeLog, lastOp, lastOutcome, callTool, queried,
          invoked, callFrom, all_tools, listed, attempts, regBefore, prevOp,
          closeMark, closeRaised, mainPc, exitPath, callers, accum,
          serverAnswer>>

\* the state of main() in cmd_mcp_client_manager.py
mainVars == <<mainPc, exitPath>>

\* the coroutines that share the manager, and the servers they talk to
concVars == <<callers, accum, serverAnswer>>

\* what the running / last operation recorded about itself
opNotes == <<callTool, queried, invoked, callFrom, all_tools, listed,
             attempts, regBefore>>

----------------------------------------------------------------------------
(* Bounds *)

MaxServers == 2
MaxOps == 4
MaxConnects == 1
MaxCallers == 2

----------------------------------------------------------------------------
(* Inputs and environment *)

ServerNames == 1..MaxServers

ToolNames == {"echo_tool", "run_command", "nonexistent"}

\* what a server may answer to list_tools
ToolLists == {<< >>, <<"echo_tool">>, <<"echo_tool", "run_command">>}

\* config.json: absent, not JSON, or "mcpServers" with one entry per name;
\* an entry either has its "command" key or lacks it
Configs ==
    {[kind |-> "missing", entries |-> << >>],
     [kind |-> "malformed", entries |-> << >>]}
    \cup {[kind |-> "json", entries |-> e] :
              e \in UNION {[1..k -> BOOLEAN] : k \in 0..MaxServers}}

\* the coroutines that may call the manager while another one is suspended
Callers == 1..MaxCallers

\* how one connection attempt can end
ConnectOutcomes == {"spawn_fail", "session_fail", "handshake_fail", "ok"}

----------------------------------------------------------------------------
(* Dictionaries and sequences *)

RECURSIVE Reverse(_)
Reverse(s) == IF s = << >> THEN << >> ELSE Append(Reverse(Tail(s)), Head(s))

Range(s) == {s[i] : i \in 1..Len(s)}

\* d[name] = ... on a dict of plain keys: a new key goes last
KeyPut(d, name) == IF name \in Range(d) THEN d ELSE Append(d, name)

\* d[name] = sid on the sessions dict: an existing key keeps its place
DictPut(d, name, sid) ==
    IF \E i \in 1..Len(d) : d[i].name = name
    THEN [i \in 1..Len(d) |->
             IF d[i].name = name THEN [name |-> name, sid |-> sid] ELSE d[i]]
    ELSE Append(d, [name |-> name, sid |-> sid])

Keys(d) == {d[i].name : i \in 1..Len(d)}

Sids(d) == {d[i].sid : i \in 1..Len(d)}

\* one logger.warning / logger.error record, tagged with the operation
LogEntry(op, site, server) == [op |-> op, site |-> site, server |-> server]

\* the operation `op` finished with `outcome`
Finish(op, outcome) ==
    /\ lastOp' = op
    /\ lastOutcome' = outcome
    /\ prevOp' = lastOp

ClearCallNotes ==
    /\ callTool' = "nonexistent"
    /\ queried' = << >>
    /\ invoked' = << >>
    /\ callFrom' = 0

ClearConnectNotes ==
    /\ attempts' = << >>
    /\ regBefore' = {}

ClearListNotes ==
    /\ all_tools' = << >>
    /\ listed' = << >>

----------------------------------------------------------------------------
(* main(): the try / except / finally around the manager's operations *)

\* faulty variant: the early return for "no servers" leaves without shutdown
ExitToSkipsEarlyReturn(path) == IF path = "no_servers" THEN "done" ELSE "finally"

\* lines 52, 63, 89, 122-126: whatever way the try block is left, the
\* finally clause is next
ExitTo(path) == "finally"

\* the operation is allowed: no main() is running, or main() is at `place`
MainAt(place) == mainPc \in {"none", place}

\* main() moves on to `next`; `path` names the exit taken, "none" if none
MainGoes(next, path) ==
    IF mainPc = "none" THEN UNCHANGED mainVars
    ELSE /\ mainPc' = next
         /\ exitPath' = IF path = "none" THEN exitPath ELSE path

----------------------------------------------------------------------------
(* __init__ *)

\* line 50: manager = MCPClientManager(config_path)
Constructed ==
    /\ server_params = << >>
    /\ sessions = << >>
    /\ exit_stack = << >>
    /\ resources = << >>
    /\ pc = "idle"
    /\ idx = 0
    /\ opCount = 0
    /\ connectCount = 0
    /\ log = << >>
    /\ closeLog = << >>
    /\ lastOp = "init"
    /\ lastOutcome = "returned"
    /\ callTool = "nonexistent"
    /\ queried = << >>
    /\ invoked = << >>
    /\ callFrom = 0
    /\ all_tools = << >>
    /\ listed = << >>
    /\ attempts = << >>
    /\ regBefore = {}
    /\ prevOp = "init"
    /\ closeMark = 0
    /\ closeRaised = 0
    /\ exitPath = "none"

\* a coroutine that has not called the manager
NewCaller ==
    [op |-> "none", tool |-> "none", at |-> "new", idx |-> 0,
     warned |-> << >>, outcome |-> "none", returned |-> << >>]

\* one flow of control drives the manager: no other coroutine calls it
SingleCaller ==
    /\ callers = [c \in Callers |-> NewCaller]
    /\ accum = [c \in Callers |-> << >>]
    /\ serverAnswer = [n \in ServerNames |-> [error |-> FALSE, tools |-> << >>]]

\* a manager driven by any caller
Init == Constructed /\ mainPc = "none" /\ SingleCaller

\* a manager driven by main(), about to enter the try block
InitMain == Constructed /\ mainPc = "load" /\ SingleCaller

----------------------------------------------------------------------------
(* load_config *)

\* the for-loop over servers.items(): info["command"] is read before the
\* assignment, so an entry without it raises KeyError and leaves the
\* entries before it in _server_params
RECURSIVE LoadEntries(_, _, _)
LoadEntries(params, entries, i) ==
    IF i > Len(entries) THEN [params |-> params, error |-> "none"]
    ELSE IF ~entries[i] THEN [params |-> params, error |-> "KeyError"]
    ELSE LoadEntries(KeyPut(params, i), entries, i + 1)

LoadConfig ==
    /\ pc = "idle"
    /\ UNCHANGED concVars
    /\ MainAt("load")
    /\ opCount < MaxOps
    /\ opCount' = opCount + 1
    /\ \E cfg \in Configs :
        LET r == LoadEntries(server_params, cfg.entries, 1)
            failed == <<LogEntry(opCount + 1, "load", 0)>>
        IN
        IF cfg.kind = "missing"
        THEN /\ Finish("load_config", "FileNotFoundError")
             /\ log' = failed
             /\ UNCHANGED server_params
        ELSE IF cfg.kind = "malformed"
        THEN /\ Finish("load_config", "JSONDecodeError")
             /\ log' = failed
             /\ UNCHANGED server_params
        ELSE /\ server_params' = r.params
             /\ IF r.error = "none"
                THEN /\ Finish("load_config", "returned")
                     /\ log' = << >>
                ELSE /\ Finish("load_config", r.error)
                     /\ log' = failed
    /\ MainGoes(IF lastOutcome' = "returned" THEN "connect"
                ELSE ExitTo("config_error"),
                IF lastOutcome' = "returned" THEN "none" ELSE "config_error")
    /\ ClearCallNotes
    /\ ClearConnectNotes
    /\ ClearListNotes
    /\ closeRaised' = 0
    /\ UNCHANGED <<connectCount, sessions, exit_stack, resources, pc, idx,
                   closeLog, closeMark>>

----------------------------------------------------------------------------
(* connect_to_all *)

\* line 79: stdio_client entered, so the transport is on the exit stack
AcquiresTransport(outcome) == outcome # "spawn_fail"

\* line 83: ClientSession entered, so the session is on the exit stack
AcquiresSession(outcome) == outcome \in {"handshake_fail", "ok"}

\* faulty variant: the insert precedes the handshake
RegistersBeforeHandshake(outcome) == outcome \in {"handshake_fail", "ok"}

\* lines 86-87: the insert follows a successful initialize()
Registers(outcome) == outcome = "ok"

ConnectBegin ==
    /\ pc = "idle"
    /\ UNCHANGED concVars
    /\ MainAt("connect")
    /\ opCount < MaxOps
    /\ connectCount < MaxConnects
    /\ opCount' = opCount + 1
    /\ connectCount' = connectCount + 1
    /\ pc' = "connect"
    /\ idx' = 1
    /\ attempts' = << >>
    /\ regBefore' = Keys(sessions)
    /\ log' = << >>
    /\ closeRaised' = 0
    /\ ClearCallNotes
    /\ ClearListNotes
    /\ UNCHANGED mainVars
    /\ UNCHANGED <<server_params, sessions, exit_stack, resources, closeLog,
                   lastOp, lastOutcome, prevOp, closeMark>>

\* one iteration of the for-loop, lines 74-92
ConnectStep ==
    /\ pc = "connect"
    /\ UNCHANGED concVars
    /\ idx <= Len(server_params)
    /\ \E outcome \in ConnectOutcomes :
        LET name == server_params[idx]
            tid == Len(resources) + 1
            sid == Len(resources) + 2
            transport == [kind |-> "transport", name |-> name, state |-> "open"]
            session == [kind |-> "session", name |-> name,
                        state |-> IF outcome = "ok" THEN "Ready" ELSE "Failed"]
        IN
        /\ resources' =
              IF AcquiresSession(outcome) THEN resources \o <<transport, session>>
              ELSE IF AcquiresTransport(outcome) THEN Append(resources, transport)
              ELSE resources
        /\ exit_stack' =
              IF AcquiresSession(outcome) THEN exit_stack \o <<tid, sid>>
              ELSE IF AcquiresTransport(outcome) THEN Append(exit_stack, tid)
              ELSE exit_stack
        /\ sessions' =
              IF AcquiresSession(outcome) /\ Registers(outcome)
              THEN DictPut(sessions, name, sid)
              ELSE sessions
        /\ log' = IF outcome = "ok" THEN log
                  ELSE Append(log, LogEntry(opCount, "connect", name))
        /\ attempts' = Append(attempts,
              [name |-> name, outcome |-> outcome,
               tid |-> IF AcquiresTransport(outcome) THEN tid ELSE 0,
               sid |-> IF AcquiresSession(outcome) THEN sid ELSE 0])
    /\ idx' = idx + 1
    /\ UNCHANGED mainVars
    /\ UNCHANGED <<connectCount, server_params, pc, opCount, closeLog, lastOp,
                   lastOutcome, prevOp, closeMark, closeRaised, callTool,
                   queried, invoked, callFrom, all_tools, listed, regBefore>>

\* the loop is exhausted: connect_to_all returns None
ConnectReturn ==
    /\ pc = "connect"
    /\ UNCHANGED concVars
    /\ idx > Len(server_params)
    /\ pc' = "idle"
    /\ Finish("connect_to_all", "returned")
    /\ MainGoes(IF sessions = << >> THEN ExitTo("no_servers") ELSE "discover",
                IF sessions = << >> THEN "no_servers" ELSE "none")
    /\ UNCHANGED <<connectCount, server_params, sessions, exit_stack, resources, idx, opCount,
                   log, closeLog, closeMark, closeRaised, opNotes>>

----------------------------------------------------------------------------
(* call_tool *)

\* what session.list_tools() can produce: a closed or failed session raises,
\* a Ready one raises or answers with a tool list
ListAnswers(sid) ==
    IF resources[sid].state = "Ready"
    THEN {[error |-> TRUE, tools |-> << >>]}
         \cup {[error |-> FALSE, tools |-> t] : t \in ToolLists}
    ELSE {[error |-> TRUE, tools |-> << >>]}

\* faulty variant: any non-empty tool list counts as a match
ToolListedAnyTool(tools, tool_name) == Len(tools) > 0

\* line 121: any(t.name == tool_name for t in tools_result.tools)
ToolListed(tools, tool_name) == \E i \in 1..Len(tools) : tools[i] = tool_name

\* faulty variant: the session just asked is dropped from the registry
SessionsDropAsked(d, i) == SubSeq(d, 1, i - 1) \o SubSeq(d, i + 1, Len(d))

\* lines 102-109 and 118-126 only read self.sessions
SessionsAfterRequest(d, i) == d

\* faulty variant: an exception in the loop body ends the search
StopAfterException(i) == Len(sessions) + 1

\* lines 124-126: the except clause logs a warning and continues with the
\* next session
ContinueAfterException(i) == i + 1

\* the tool asked for: main() always asks for "echo_tool" (line 100)
CalledTools == IF mainPc = "none" THEN ToolNames ELSE {"echo_tool"}

CallBegin ==
    /\ pc = "idle"
    /\ UNCHANGED concVars
    /\ MainAt("prompt")
    /\ opCount < MaxOps
    /\ opCount' = opCount + 1
    /\ pc' = "call"
    /\ idx' = 1
    /\ \E tool_name \in CalledTools : callTool' = tool_name
    /\ queried' = << >>
    /\ invoked' = << >>
    /\ callFrom' = 0
    /\ log' = << >>
    /\ closeRaised' = 0
    /\ ClearConnectNotes
    /\ ClearListNotes
    /\ UNCHANGED mainVars
    /\ UNCHANGED <<connectCount, server_params, sessions, exit_stack, resources,
                   closeLog, lastOp, lastOutcome, prevOp, closeMark>>

\* one iteration of the for-loop, lines 118-126: the try block holds both
\* list_tools and call_tool, so an exception of either one is logged and
\* the loop continues with the next session
CallStep ==
    /\ pc = "call"
    /\ UNCHANGED concVars
    /\ idx <= Len(sessions)
    /\ LET sid == sessions[idx].sid
           name == sessions[idx].name
           warned == Append(log, LogEntry(opCount, "call", name))
       IN
       \E answer \in ListAnswers(sid), callOk \in BOOLEAN :
        /\ queried' = Append(queried,
              [sid |-> sid,
               answer |-> IF answer.error THEN "error"
                          ELSE IF callTool \in Range(answer.tools) THEN "has"
                          ELSE "lacks"])
        /\ IF answer.error
           THEN /\ callOk
                /\ log' = warned
                /\ idx' = ContinueAfterException(idx)
                /\ UNCHANGED <<pc, invoked, callFrom, lastOp, lastOutcome, prevOp>>
           ELSE IF ToolListed(answer.tools, callTool)
           THEN /\ invoked' = Append(invoked, [sid |-> sid, ok |-> callOk])
                /\ IF callOk
                   THEN /\ pc' = "idle"
                        /\ callFrom' = sid
                        /\ Finish("call_tool", "result")
                        /\ UNCHANGED <<log, idx>>
                   ELSE /\ log' = warned
                        /\ idx' = ContinueAfterException(idx)
                        /\ UNCHANGED <<pc, callFrom, lastOp, lastOutcome, prevOp>>
           ELSE /\ callOk
                /\ idx' = idx + 1
                /\ UNCHANGED <<pc, log, invoked, callFrom, lastOp, lastOutcome,
                               prevOp>>
    /\ sessions' = SessionsAfterRequest(sessions, idx)
    /\ UNCHANGED mainVars
    /\ UNCHANGED <<connectCount, server_params, exit_stack, resources, opCount,
                   closeLog, closeMark, closeRaised, callTool, all_tools,
                   listed, attempts, regBefore>>

\* line 128: the loop is exhausted
CallNotFound ==
    /\ pc = "call"
    /\ UNCHANGED concVars
    /\ idx > Len(sessions)
    /\ pc' = "idle"
    /\ Finish("call_tool", "ValueError")
    /\ UNCHANGED mainVars
    /\ UNCHANGED <<connectCount, server_params, sessions, exit_stack, resources, idx, opCount,
                   log, closeLog, closeMark, closeRaised, opNotes>>

----------------------------------------------------------------------------
(* list_all_tools *)

\* faulty variant: a name already collected is not collected again
AggregateDistinct(all, tools) ==
    all \o SelectSeq(tools, LAMBDA t : t \notin Range(all))

\* lines 106-107: every tool of the answer is appended, in the answer's order
Aggregate(all, tools) == all \o tools

\* faulty variant: a failed request ends the loop
NextSessionUnlessError(i, error) == IF error THEN Len(sessions) + 1 ELSE i + 1

\* lines 102-109: the except clause is inside the loop, so the loop goes on
NextSession(i, error) == i + 1

\* faulty variant: an empty aggregate is reported as an error
ListOutcomeRejectsEmpty(all) == IF all = << >> THEN "ValueError" ELSE "returned"

\* line 110: return all_tools
ListOutcome(all) == "returned"

ListBegin ==
    /\ pc = "idle"
    /\ UNCHANGED concVars
    /\ MainAt("discover")
    /\ opCount < MaxOps
    /\ opCount' = opCount + 1
    /\ pc' = "list"
    /\ idx' = 1
    /\ all_tools' = << >>
    /\ listed' = << >>
    /\ log' = << >>
    /\ closeRaised' = 0
    /\ ClearCallNotes
    /\ ClearConnectNotes
    /\ UNCHANGED mainVars
    /\ UNCHANGED <<connectCount, server_params, sessions, exit_stack, resources,
                   closeLog, lastOp, lastOutcome, prevOp, closeMark>>

\* one iteration of the for-loop, lines 102-109
ListStep ==
    /\ pc = "list"
    /\ UNCHANGED concVars
    /\ idx <= Len(sessions)
    /\ LET sid == sessions[idx].sid
           name == sessions[idx].name
       IN
       \E answer \in ListAnswers(sid) :
        /\ listed' = Append(listed, [sid |-> sid, error |-> answer.error,
                                     tools |-> answer.tools])
        /\ IF answer.error
           THEN /\ log' = Append(log, LogEntry(opCount, "list", name))
                /\ UNCHANGED all_tools
           ELSE /\ all_tools' = Aggregate(all_tools, answer.tools)
                /\ UNCHANGED log
        /\ idx' = NextSession(idx, answer.error)
    /\ sessions' = SessionsAfterRequest(sessions, idx)
    /\ UNCHANGED mainVars
    /\ UNCHANGED <<connectCount, server_params, exit_stack, resources, pc,
                   opCount, closeLog, lastOp, lastOutcome, prevOp, closeMark,
                   closeRaised, callTool, queried, invoked, callFrom, attempts,
                   regBefore>>

\* line 110: the loop is exhausted
ListReturn ==
    /\ pc = "list"
    /\ UNCHANGED concVars
    /\ idx > Len(sessions)
    /\ pc' = "idle"
    /\ Finish("list_all_tools", ListOutcome(all_tools))
    /\ MainGoes("prompt", "none")
    /\ UNCHANGED <<connectCount, server_params, sessions, exit_stack, resources,
                   idx, opCount, log, closeLog, closeMark, closeRaised, opNotes>>

----------------------------------------------------------------------------
(* shutdown *)

\* faulty variant: release in acquisition order
UnwindFirstInFirstOut(stack) == stack

\* AsyncExitStack.aclose() runs the exit callbacks last-in first-out
UnwindOrder(stack) == Reverse(stack)

\* faulty variant: release only what belongs to a registered session
RegisteredOnly ==
    SelectSeq(exit_stack,
              LAMBDA r : r \in Sids(sessions) \/ (r + 1) \in Sids(sessions))

\* what aclose() releases: every context manager entered on the stack
ReleaseList == exit_stack

\* faulty variant: the callbacks stay on the stack
StackKept(stack) == stack

\* aclose() pops every callback it runs, whether or not it raised
StackAfterAclose(stack) == << >>

\* line 137; an exception of an __aexit__ does not stop the unwinding and is
\* raised again by aclose() once the stack is empty, so line 138 is skipped.
\* At most one __aexit__ of a shutdown raises.  A resource is "Closed" once
\* its __aexit__ ran, whether it raised or not.
Shutdown ==
    /\ pc = "idle"
    /\ UNCHANGED concVars
    /\ MainAt("finally")
    /\ opCount < MaxOps \/ mainPc = "finally"
    /\ opCount' = opCount + 1
    /\ LET order == UnwindOrder(ReleaseList) IN
       \E failing \in {0} \cup Range(order) :
        /\ closeLog' = closeLog \o order
        /\ resources' =
              [r \in 1..Len(resources) |->
                  IF r \in Range(order)
                  THEN [resources[r] EXCEPT !.state = "Closed"]
                  ELSE resources[r]]
        /\ closeRaised' = failing
        /\ Finish("shutdown", IF failing = 0 THEN "returned" ELSE "raised")
    /\ exit_stack' = StackAfterAclose(exit_stack)
    /\ closeMark' = Len(closeLog)
    /\ log' = << >>
    /\ ClearCallNotes
    /\ ClearConnectNotes
    /\ ClearListNotes
    /\ MainGoes("done", "none")
    /\ UNCHANGED <<connectCount, server_params, sessions, pc, idx>>

----------------------------------------------------------------------------

Next ==
    \/ LoadConfig
    \/ ConnectBegin
    \/ ConnectStep
    \/ ConnectReturn
    \/ CallBegin
    \/ CallStep
    \/ CallNotFound
    \/ ListBegin
    \/ ListStep
    \/ ListReturn
    \/ Shutdown

Spec == Init /\ [][Next]_vars

----------------------------------------------------------------------------
(* main() *)

managerVars == <<server_params, sessions, exit_stack, resources, pc, idx,
                 opCount, connectCount, log, closeLog, lastOp, lastOutcome,
                 prevOp, closeMark, closeRaised, opNotes>>

\* lines 88-89: the user types "exit" or "quit"
MainUserExit ==
    /\ mainPc = "prompt"
    /\ pc = "idle"
    /\ mainPc' = ExitTo("user_exit")
    /\ exitPath' = "user_exit"
    /\ UNCHANGED managerVars
    /\ UNCHANGED concVars

\* lines 124-125: console.print, Prompt.ask or the table raise between two
\* operations of the manager
MainUnexpectedError ==
    /\ mainPc \in {"load", "connect", "discover", "prompt"}
    /\ pc = "idle"
    /\ mainPc' = ExitTo("unexpected_error")
    /\ exitPath' = "unexpected_error"
    /\ UNCHANGED managerVars
    /\ UNCHANGED concVars

NextMain ==
    \/ Next
    \/ MainUserExit
    \/ MainUnexpectedError

\* asyncio.run(main()) runs the coroutine to its end
SpecMain == InitMain /\ [][NextMain]_vars /\ WF_vars(NextMain)

----------------------------------------------------------------------------
(* Concurrent callers of list_all_tools and call_tool *)

(* list_all_tools and call_tool are coroutines: at `await session.list_tools()` *)
(* and `await session.call_tool(...)` the request is sent and the coroutine    *)
(* is suspended until the response arrives, and the event loop may run         *)
(* another coroutine that calls the same manager.  Nothing else in the two     *)
(* methods yields, so one step of a caller runs from one await to the next.    *)
(* The servers are fixed: every list_tools request to a server gets the same   *)
(* answer, its tool list or a failure.                                         *)

\* the registry after load_config of k valid descriptors and a connect_to_all
\* whose k attempts all succeeded
EstablishedRegistry(k) ==
    /\ server_params = [i \in 1..k |-> i]
    /\ sessions = [i \in 1..k |-> [name |-> i, sid |-> 2 * i]]
    /\ exit_stack = [r \in 1..(2 * k) |-> r]
    /\ resources =
          [r \in 1..(2 * k) |->
              IF r % 2 = 1
              THEN [kind |-> "transport", name |-> (r + 1) \div 2, state |-> "open"]
              ELSE [kind |-> "session", name |-> r \div 2, state |-> "Ready"]]
    /\ pc = "idle"
    /\ idx = k + 1
    /\ opCount = 2
    /\ connectCount = 1
    /\ log = << >>
    /\ closeLog = << >>
    /\ lastOp = "connect_to_all"
    /\ lastOutcome = "returned"
    /\ prevOp = "load_config"
    /\ callTool = "nonexistent"
    /\ queried = << >>
    /\ invoked = << >>
    /\ callFrom = 0
    /\ all_tools = << >>
    /\ listed = << >>
    /\ attempts = [i \in 1..k |-> [name |-> i, outcome |-> "ok",
                                   tid |-> 2 * i - 1, sid |-> 2 * i]]
    /\ regBefore = {}
    /\ closeMark = 0
    /\ closeRaised = 0
    /\ mainPc = "none"
    /\ exitPath = "none"

\* an established registry, servers with fixed answers, callers yet to call
InitConc ==
    /\ \E k \in 0..MaxServers : EstablishedRegistry(k)
    /\ callers = [c \in Callers |-> NewCaller]
    /\ accum = [c \in Callers |-> << >>]
    /\ serverAnswer \in
          [ServerNames -> {[error |-> TRUE, tools |-> << >>]}
                          \cup {[error |-> FALSE, tools |-> t] : t \in ToolLists}]

\* the response to list_tools on session sid
ServerAnswers(sid) ==
    IF resources[sid].state = "Ready"
    THEN serverAnswer[resources[sid].name]
    ELSE [error |-> TRUE, tools |-> << >>]

\* faulty variant: one list shared by every frame
SharedList(c) == 1

\* line 100: all_tools = [] is a local of the frame
OwnList(c) == c

\* the caller awaits a response
Waiting(c) == callers[c].at \in {"list_tools", "call_tool"}

\* the callers whose request on session sid has no response yet
InFlight(sid) ==
    {c \in Callers : Waiting(c) /\ sessions[callers[c].idx].sid = sid}

\* line 100, then line 103 on the first session or line 110
CallerListBegin(c) ==
    /\ pc = "idle"
    /\ callers[c].at = "new"
    /\ accum' = [accum EXCEPT ![OwnList(c)] = << >>]
    /\ callers' = [callers EXCEPT ![c] =
          IF sessions = << >>
          THEN [NewCaller EXCEPT !.op = "list_all_tools", !.at = "done",
                                 !.idx = 1, !.outcome = ListOutcome(<< >>)]
          ELSE [NewCaller EXCEPT !.op = "list_all_tools", !.at = "list_tools",
                                 !.idx = 1]]
    /\ UNCHANGED <<managerVars, mainVars, serverAnswer>>

\* the response of line 103 arrives: lines 104-109, then line 103 on the
\* next session or line 110
CallerListed(c) ==
    /\ callers[c].op = "list_all_tools"
    /\ callers[c].at = "list_tools"
    /\ LET i == callers[c].idx
           answer == ServerAnswers(sessions[i].sid)
           all == IF answer.error THEN accum[OwnList(c)]
                  ELSE Aggregate(accum[OwnList(c)], answer.tools)
           next == NextSession(i, answer.error)
           over == next > Len(sessions)
       IN
       /\ accum' = [accum EXCEPT ![OwnList(c)] = all]
       /\ callers' = [callers EXCEPT ![c] =
             [@ EXCEPT !.idx = next,
                       !.warned = IF answer.error
                                  THEN Append(@, sessions[i].name) ELSE @,
                       !.at = IF over THEN "done" ELSE "list_tools",
                       !.outcome = IF over THEN ListOutcome(all) ELSE @,
                       !.returned = IF over THEN all ELSE @]]
    /\ UNCHANGED <<managerVars, mainVars, serverAnswer>>

\* the for-loop of call_tool goes on after session i: line 120 on the next
\* session or line 128
CallerNextSession(caller, i) ==
    IF i + 1 > Len(sessions)
    THEN [caller EXCEPT !.idx = i + 1, !.at = "done", !.outcome = "ValueError"]
    ELSE [caller EXCEPT !.idx = i + 1, !.at = "list_tools"]

\* line 120 on the first session, or line 128
CallerCallBegin(c) ==
    /\ pc = "idle"
    /\ callers[c].at = "new"
    /\ \E tool_name \in ToolNames :
        callers' = [callers EXCEPT ![c] =
            CallerNextSession([NewCaller EXCEPT !.op = "call_tool",
                                                !.tool = tool_name], 0)]
    /\ UNCHANGED <<managerVars, mainVars, accum, serverAnswer>>

\* the response of line 120 arrives: line 121, then line 123 or the next
\* iteration
CallerCallListed(c) ==
    /\ callers[c].op = "call_tool"
    /\ callers[c].at = "list_tools"
    /\ LET i == callers[c].idx
           answer == ServerAnswers(sessions[i].sid)
       IN
       callers' = [callers EXCEPT ![c] =
           IF answer.error
           THEN CallerNextSession([@ EXCEPT !.warned =
                                       Append(@, sessions[i].name)], i)
           ELSE IF ToolListed(answer.tools, @.tool)
           THEN [@ EXCEPT !.at = "call_tool"]
           ELSE CallerNextSession(@, i)]
    /\ UNCHANGED <<managerVars, mainVars, accum, serverAnswer>>

\* the response of line 123 arrives: the result is returned, or the
\* exception is logged at line 125 and the loop continues
CallerCallResult(c) ==
    /\ callers[c].op = "call_tool"
    /\ callers[c].at = "call_tool"
    /\ LET i == callers[c].idx IN
       \E callOk \in BOOLEAN :
        callers' = [callers EXCEPT ![c] =
            IF callOk
            THEN [@ EXCEPT !.at = "done", !.outcome = "result"]
            ELSE CallerNextSession([@ EXCEPT !.warned =
                                        Append(@, sessions[i].name)], i)]
    /\ UNCHANGED <<managerVars, mainVars, accum, serverAnswer>>

NextConc ==
    \E c \in Callers :
        \/ CallerListBegin(c)
        \/ CallerListed(c)
        \/ CallerCallBegin(c)
        \/ CallerCallListed(c)
        \/ CallerCallResult(c)

\* coroutines scheduled by one event loop on an established manager
SpecConc == InitConc /\ [][NextConc]_vars

----------------------------------------------------------------------------
(* Properties of connect_to_all *)

ConnectDone == pc = "idle" /\ lastOp = "connect_to_all"

OkAttempts == SelectSeq(attempts, LAMBDA a : a.outcome = "ok")

FailedAttempts == SelectSeq(attempts, LAMBDA a : a.outcome # "ok")

\* C1: when connect_to_all completes, every loaded descriptor was attempted
\* once, in order; the registry holds exactly the names registered before
\* plus the names that connected (so, on a fresh manager, exactly the N-K
\* names that connected and no failed name), each connected name mapped to
\* the Ready session of its attempt; and exactly one failure was logged for
\* each of the K failed descriptors.
C1_ConnectToAllIsolatesFailures ==
    ConnectDone =>
        /\ [i \in 1..Len(attempts) |-> attempts[i].name] = server_params
        /\ Keys(sessions) = regBefore \cup {a.name : a \in Range(OkAttempts)}
        /\ \A a \in Range(OkAttempts) :
              /\ [name |-> a.name, sid |-> a.sid] \in Range(sessions)
              /\ resources[a.sid].state = "Ready"
        /\ \A a \in Range(FailedAttempts) :
              a.name \notin regBefore => a.name \notin Keys(sessions)
        /\ log = [i \in 1..Len(FailedAttempts) |->
                     LogEntry(opCount, "connect", FailedAttempts[i].name)]

\* a run in which a failed attempt is followed by a successful one
C1_Witness ==
    /\ ConnectDone
    /\ regBefore = {}
    /\ \E i, j \in 1..Len(attempts) :
          i < j /\ attempts[i].outcome # "ok" /\ attempts[j].outcome = "ok"

\* C2: the transport of a failed connection attempt is torn down before the
\* failure is reported: no failed attempt of the running or last
\* connect_to_all owns a transport that is still open.
C2_FailedAttemptTornDown ==
    \A a \in Range(FailedAttempts) :
        a.tid # 0 => resources[a.tid].state = "Closed"

----------------------------------------------------------------------------
(* Properties of shutdown *)

ShutdownDone == pc = "idle" /\ lastOp = "shutdown"

\* the resources released by the last shutdown, in release order
Released == SubSeq(closeLog, closeMark + 1, Len(closeLog))

\* C3: once shutdown() has returned, every context manager the manager ever
\* entered, registered or not, has been closed and the release list is
\* empty: no transport is left open.
C3_ShutdownClosesEveryTransport ==
    (ShutdownDone /\ lastOutcome = "returned") =>
        /\ exit_stack = << >>
        /\ \A r \in 1..Len(resources) :
              resources[r].state = "Closed" /\ r \in Range(closeLog)

\* a shutdown that returned after a connect-all with a registered server and
\* with a transport whose session never became Ready
C3_Witness ==
    /\ ShutdownDone
    /\ lastOutcome = "returned"
    /\ sessions # << >>
    /\ \E r \in 1..Len(resources) :
          /\ resources[r].kind = "transport"
          /\ (r + 1) \notin Sids(sessions)

\* C4: shutdown releases in the reverse of the acquisition order (resource
\* ids grow in acquisition order): of two resources released by one
\* shutdown the one acquired later is closed first, and a session is
\* closed together with, and before, its own transport.
C4_ReverseAcquisitionOrder ==
    ShutdownDone =>
        /\ \A i, j \in 1..Len(Released) :
              i < j => Released[i] > Released[j]
        /\ \A i \in 1..Len(Released) :
              resources[Released[i]].kind = "session" =>
                  /\ i < Len(Released)
                  /\ Released[i + 1] = Released[i] - 1
                  /\ resources[Released[i + 1]].kind = "transport"

\* a shutdown that released the sessions and transports of two servers
C4_Witness ==
    /\ ShutdownDone
    /\ Cardinality({i \in 1..Len(Released) :
                       resources[Released[i]].kind = "session"}) >= 2

\* C5: a shutdown() called directly after a shutdown() returns without an
\* error and issues no close; no resource is ever closed twice.
C5_SecondShutdownClosesNothing ==
    /\ (ShutdownDone /\ prevOp = "shutdown") =>
          /\ lastOutcome = "returned"
          /\ Released = << >>
    /\ \A i, j \in 1..Len(closeLog) : closeLog[i] = closeLog[j] => i = j

\* two shutdowns in a row, the first of which had resources to close
C5_Witness ==
    /\ ShutdownDone
    /\ prevOp = "shutdown"
    /\ closeLog # << >>

\* C6: when a close fails during shutdown(), shutdown() returns normally,
\* the failure is logged and every resource of the release list is closed.
C6_ShutdownSwallowsCloseFailure ==
    (ShutdownDone /\ closeRaised # 0) =>
        /\ lastOutcome = "returned"
        /\ \E i \in 1..Len(log) : log[i].site = "shutdown"
        /\ \A r \in 1..Len(resources) : resources[r].state = "Closed"

----------------------------------------------------------------------------
(* Properties of call_tool *)

CallDone == pc = "idle" /\ lastOp = "call_tool"

\* positions of the list_tools answers that contained the requested name
Matches == {i \in 1..Len(queried) : queried[i].answer = "has"}

FirstMatch == CHOOSE i \in Matches : \A j \in Matches : i <= j

\* C7: one call_tool invokes the tool on at most one session.
C7_AtMostOneInvocation == Len(invoked) <= 1

\* C8: when the session that owns the tool (the first one invoked) fails
\* the call, call_tool ends with the call-failed error.
C8_RemoteErrorIsCallFailed ==
    (CallDone /\ invoked # << >> /\ ~invoked[1].ok) =>
        lastOutcome = "ToolCallFailed"

\* C9: call_tool forwards the call to the first session whose tool list
\* contains the name and to no other, asks no later session for its tool
\* list, and returns that session's result.
C9_FirstMatchOnly ==
    Matches # {} =>
        /\ Len(queried) = FirstMatch
        /\ \A i \in 1..Len(invoked) : invoked[i].sid = queried[FirstMatch].sid
        /\ (CallDone /\ invoked[1].ok) =>
              lastOutcome = "result" /\ callFrom = queried[FirstMatch].sid

\* C10: as long as no session's tool list contained the requested name,
\* call_tool has invoked no session and returned no result; and when it
\* ends it has asked every registered session, in registry order, and
\* fails with the tool-not-found error (ValueError).
C10_UnlistedToolNotFound ==
    Matches = {} =>
        /\ invoked = << >>
        /\ callFrom = 0
        /\ CallDone =>
              /\ lastOutcome = "ValueError"
              /\ [i \in 1..Len(queried) |-> queried[i].sid]
                    = [i \in 1..Len(sessions) |-> sessions[i].sid]

\* a call that ended not-found although a Ready session answered with a
\* non-empty tool list
C10_Witness ==
    /\ CallDone
    /\ lastOutcome = "ValueError"
    /\ \E i \in 1..Len(queried) : queried[i].answer = "lacks"
    /\ Matches = {}

----------------------------------------------------------------------------
(* Properties of load_config and of the registry *)

\* C11: load_config is all-or-nothing: a load_config that fails (missing
\* file, unparsable file, entry without "command") leaves _server_params
\* as it was before the call.
C11_LoadConfigAllOrNothing ==
    [][(/\ pc = "idle"
        /\ opCount' = opCount + 1
        /\ lastOp' = "load_config"
        /\ pc' = "idle"
        /\ lastOutcome' # "returned") => server_params' = server_params]_vars

\* C12: every session held in the registry is Ready, in every reachable
\* state.
C12_RegistryHoldsReadySessions ==
    \A i \in 1..Len(sessions) : resources[sessions[i].sid].state = "Ready"

----------------------------------------------------------------------------
(* Properties of list_all_tools *)

ListDone == pc = "idle" /\ lastOp = "list_all_tools"

\* the answers so far, failed requests left out, one after the other
RECURSIVE FlattenAnswers(_)
FlattenAnswers(l) ==
    IF l = << >> THEN << >>
    ELSE (IF Head(l).error THEN << >> ELSE Head(l).tools)
         \o FlattenAnswers(Tail(l))

\* how often tool name t occurs in a sequence of names
Occurrences(names, t) == Cardinality({i \in 1..Len(names) : names[i] = t})

\* how often t occurs in the answers of the requests that succeeded
RECURSIVE Answered(_, _)
Answered(l, t) ==
    IF l = << >> THEN 0
    ELSE (IF Head(l).error THEN 0 ELSE Occurrences(Head(l).tools, t))
         + Answered(Tail(l), t)

FailedListings == SelectSeq(listed, LAMBDA a : a.error)

\* C14: in list_all_tools a failed list-tools request contributes no tool
\* and is logged once, every tool of every request that succeeded is in
\* the result as often as it was answered, every registered session is
\* asked, and list_all_tools returns normally.
C14_ListingFailureIsIsolated ==
    /\ \A t \in ToolNames : Occurrences(all_tools, t) = Answered(listed, t)
    /\ Len(log) >= Len(FailedListings)
    /\ \A i \in 1..Len(FailedListings) :
          /\ log[i].site = "list"
          /\ resources[FailedListings[i].sid].name = log[i].server
    /\ ListDone =>
          /\ lastOutcome = "returned"
          /\ Len(log) = Len(FailedListings)
          /\ [i \in 1..Len(listed) |-> listed[i].sid]
                = [i \in 1..Len(sessions) |-> sessions[i].sid]

\* a listing in which a failed request is followed by one that answered tools
C14_Witness ==
    /\ ListDone
    /\ \E i, j \in 1..Len(listed) :
          i < j /\ listed[i].error /\ ~listed[j].error /\ listed[j].tools # << >>

\* C15: list_all_tools returns the concatenation, in registry order, of
\* the tool lists answered, each in the server's own order, nothing sorted
\* and nothing removed.
C15_ConcatenationInRegistryOrder ==
    ListDone =>
        /\ all_tools = FlattenAnswers(listed)
        /\ \A i \in 1..Len(listed) : listed[i].sid = sessions[i].sid

\* a listing in which two servers answered the same tool name
C15_Witness ==
    /\ ListDone
    /\ \E i, j \in 1..Len(listed) :
          /\ i < j
          /\ Range(listed[i].tools) \cap Range(listed[j].tools) # {}
    /\ \E i, j \in 1..Len(all_tools) : i < j /\ all_tools[i] = all_tools[j]

\* C16: list_all_tools on an empty registry returns the empty sequence and
\* reports no error.
C16_EmptyRegistryListsNothing ==
    (ListDone /\ sessions = << >>) =>
        /\ all_tools = << >>
        /\ lastOutcome = "returned"
        /\ log = << >>

\* a listing on a registry that is empty because every attempt failed
C16_Witness ==
    /\ ListDone
    /\ sessions = << >>
    /\ server_params # << >>
    /\ connectCount > 0

----------------------------------------------------------------------------
(* Frame and life cycle *)

\* C19: no step of list_all_tools or call_tool, successful or failed,
\* changes the registry or the release list.
C19_DiscoveryAndDispatchReadOnly ==
    [][(pc \in {"call", "list"} \/ pc' \in {"call", "list"}) =>
          (sessions' = sessions /\ exit_stack' = exit_stack)]_vars

\* a call_tool or list_all_tools that ended after logging a failed request
\* on a registry that holds a session
C19_Witness ==
    /\ CallDone \/ ListDone
    /\ sessions # << >>
    /\ exit_stack # << >>
    /\ log # << >>

----------------------------------------------------------------------------
(* Properties of main() *)

\* C13: once main() has left its try block, by a configuration error, by
\* the early return for no connected server, by the user's exit or by an
\* unexpected error, shutdown() is eventually invoked.
C13_ShutdownOnEveryExitPath == (exitPath # "none") ~> (lastOp = "shutdown")

\* main() ended through the early return and shutdown() ran
C13_Witness ==
    /\ mainPc = "done"
    /\ exitPath = "no_servers"
    /\ lastOp = "shutdown"

----------------------------------------------------------------------------
(* Properties of concurrent callers *)

\* C17: a session never has two requests in flight: under any interleaving
\* of concurrent list_all_tools and call_tool callers, no request
\* (list_tools or call_tool) is sent on a session while the response to an
\* earlier request on that session is still awaited.
C17_OneRequestInFlightPerSession ==
    \A i \in 1..Len(sessions) : Cardinality(InFlight(sessions[i].sid)) <= 1

ListReturned(c) ==
    /\ callers[c].op = "list_all_tools"
    /\ callers[c].at = "done"
    /\ callers[c].outcome = "returned"

\* C18: list_all_tools calls interleaved on the same established registry,
\* with no connect_to_all or shutdown running and servers whose tool sets
\* do not change, all return the same tools.
C18_ConcurrentDiscoveryAgrees ==
    \A a, b \in Callers :
        ListReturned(a) /\ ListReturned(b) =>
            /\ callers[a].returned = callers[b].returned
            /\ Range(callers[a].returned) = Range(callers[b].returned)

C18_Witness ==
    /\ Len(sessions) = 2
    /\ ListReturned(1)
    /\ ListReturned(2)
    /\ callers[1].returned = <<"echo_tool", "echo_tool", "run_command">>
    /\ callers[2].warned = << >>

----------------------------------------------------------------------------
(* Properties of a failed list_tools inside call_tool *)

\* positions of the list_tools requests of the call that raised
FailedQueries == {i \in 1..Len(queried) : queried[i].answer = "error"}

\* C21: in call_tool a session whose list_tools request fails is skipped
\* with a warning and the search goes on with the next session in registry
\* order: the sessions are asked in registry order without a gap, a later
\* session that lists the tool is still invoked, and when no session after
\* the failed one lists it the call ends, every session asked, with the
\* tool-not-found error (ValueError).
C21_ListFailureSkipsSession ==
    (pc = "call" \/ CallDone) =>
        /\ Len(queried) <= Len(sessions)
        /\ \A i \in 1..Len(queried) : queried[i].sid = sessions[i].sid
        /\ pc = "call" => idx = Len(queried) + 1
        /\ \A i \in FailedQueries :
              /\ LogEntry(opCount, "call", sessions[i].name) \in Range(log)
              /\ \A j \in Matches :
                    j > i => \E k \in 1..Len(invoked) :
                                 invoked[k].sid = queried[j].sid
              /\ (CallDone /\ \A j \in Matches : j < i) =>
                    /\ lastOutcome = "ValueError"
                    /\ Len(queried) = Len(sessions)

\* the first session failed to list its tools and the second one, which
\* lists the tool, was invoked and gave the result
C21_Witness ==
    /\ CallDone
    /\ Len(queried) = 2
    /\ queried[1].answer = "error"
    /\ queried[2].answer = "has"
    /\ invoked = <<[sid |-> queried[2].sid, ok |-> TRUE]>>
    /\ lastOutcome = "result"
    /\ callFrom = sessions[2].sid

====
